---- MODULE Spec2Model ----
(***************************************************************************)
(* Model of the `seq` function-like macro (src/seq/src/lib.rs) and of the  *)
(* `sorted` attribute macro (src/sorted/src/lib.rs).                       *)
(*                                                                         *)
(* A macro invocation is a pure function of its input token stream.  The   *)
(* functions of the source are operators with the source's names; the      *)
(* state machines below draw an input in Init and run the macro on it.     *)
(***************************************************************************)
EXTENDS Integers, Sequences, FiniteSets, TLC

VARIABLES
    pc,        \* position of the macro invocation (seq) or of the loop (sorted)
    input,     \* seq: the raw invocation token stream handed to `seq`
    ast,       \* seq: the parsed SeqAst, NoAst before parsing / after a parse failure
    expanded,  \* seq: the local `expanded` of SeqAst::expand
    found,     \* seq: the local `found` of SeqAst::expand
    output,    \* the token stream the macro hands back to the compiler
    variants,  \* sorted: the enum's variant names, in declaration order
    checked,   \* sorted: the local `checked` of check_sorted
    pos,       \* sorted: index of the next variant the loop of check_sorted visits
    walk       \* walker: the (stream, index, result) of one expand_index call

vars == <<pc, input, ast, expanded, found, output, variants, checked, pos, walk>>

(***************************************************************************)
(* Token model (proc_macro2::TokenTree).  Every token is a record          *)
(*   k  : "ident" | "punct" | "lit" | "group" | "error"                    *)
(*   t  : identifier text / punctuation / literal suffix / delimiter /     *)
(*        diagnostic message                                               *)
(*   v  : the base-10 digits of an integer literal (most significant       *)
(*        first), <<>> for every other kind                                *)
(*   s  : the inner stream of a group, <<>> for every other kind           *)
(*   sp : the span (source position)                                       *)
(***************************************************************************)
Ident(t, sp) == [k |-> "ident", t |-> t, v |-> <<>>, s |-> <<>>, sp |-> sp]

Punct(c, sp) == [k |-> "punct", t |-> c, v |-> <<>>, s |-> <<>>, sp |-> sp]

Lit(digits, suffix, sp) == [k |-> "lit", t |-> suffix, v |-> digits, s |-> <<>>, sp |-> sp]

Group(delim, stream, sp) == [k |-> "group", t |-> delim, v |-> <<>>, s |-> stream, sp |-> sp]

\* syn::Error::into_compile_error: the diagnostic payload embedded in the output
CompileError(msg, sp) == [k |-> "error", t |-> msg, v |-> <<>>, s |-> <<>>, sp |-> sp]

(***************************************************************************)
(* Unsigned integers.  A value is the sequence of its base-10 digits       *)
(* without leading zeros, so that the full 64-bit width is kept.           *)
(***************************************************************************)
U64Max == <<1,8,4,4,6,7,4,4,0,7,3,7,0,9,5,5,1,6,1,5>>

Zero == <<0>>

RECURSIVE LexLess(_, _, _)
LexLess(a, b, p) ==
    IF p > Len(a) THEN FALSE
    ELSE IF a[p] < b[p] THEN TRUE
    ELSE IF a[p] > b[p] THEN FALSE
    ELSE LexLess(a, b, p + 1)

\* a < b on u64 values
NumLess(a, b) ==
    IF Len(a) # Len(b) THEN Len(a) < Len(b) ELSE LexLess(a, b, 1)

\* a + 1 without a width limit
RECURSIVE Succ(_)
Succ(a) ==
    IF Len(a) = 0 THEN <<1>>
    ELSE IF a[Len(a)] < 9 THEN SubSeq(a, 1, Len(a) - 1) \o <<a[Len(a)] + 1>>
    ELSE Succ(SubSeq(a, 1, Len(a) - 1)) \o <<0>>

\* <LitInt>::base10_parse::<u64>: fails when the digits exceed u64::MAX
base10_parse(lit) ==
    IF NumLess(U64Max, lit.v)
    THEN [ok |-> FALSE, val |-> Zero]
    ELSE [ok |-> TRUE, val |-> lit.v]

\* `{}` formatting of a u64: its decimal text
DigitChar == <<"0", "1", "2", "3", "4", "5", "6", "7", "8", "9">>

RECURSIVE Decimal(_)
Decimal(n) ==
    IF Len(n) = 0 THEN ""
    ELSE Decimal(SubSeq(n, 1, Len(n) - 1)) \o DigitChar[n[Len(n)] + 1]

(***************************************************************************)
(* SeqAst, the parsed invocation: ident (the binding), from, to (literal   *)
(* tokens), inclusive, content (the body stream).                          *)
(***************************************************************************)
NoAst == [ident |-> Ident("", 0), from |-> Lit(Zero, "", 0), to |-> Lit(Zero, "", 0),
          inclusive |-> FALSE, content |-> <<>>, parsed |-> FALSE]

RECURSIVE expand_index_from(_, _, _, _)
RECURSIVE expand_tree(_, _, _, _)

\* Literal::u64_unsuffixed(i) carrying the span of the identifier it replaces
IndexLiteral(tt, i) == Lit(i, "", tt.sp)

\* the splice arm of expand_tree without the jump ahead (`*itr = seek` left out)
SpliceNoJump(self, s, p, i) ==
    [ts |-> <<Ident(s[p].t \o Decimal(i), s[p].sp)>>, next |-> p + 1]

\* the splice arm of expand_tree: `ident ~ N` found at s[p..p+2]
Splice(self, s, p, i) ==
    [ts |-> <<Ident(s[p].t \o Decimal(i), s[p].sp)>>, next |-> p + 3]

\* the lookahead of expand_tree that accepts any identifier after `~`
SpliceAheadAnyIdent(self, s, p) ==
    /\ p + 2 <= Len(s)
    /\ s[p + 1].k = "punct" /\ s[p + 1].t = "~"
    /\ s[p + 2].k = "ident"

\* the lookahead of expand_tree: (seek.next(), seek.next()) is (`~`, binding)
SpliceAhead(self, s, p) ==
    /\ p + 2 <= Len(s)
    /\ s[p + 1].k = "punct" /\ s[p + 1].t = "~"
    /\ s[p + 2].k = "ident" /\ s[p + 2].t = self.ident.t

\* expand_index: the while loop over the stream, cursor at p
expand_index_from(self, s, p, i) ==
    IF p > Len(s) THEN <<>>
    ELSE LET r == expand_tree(self, s, p, i)
         IN  r.ts \o expand_index_from(self, s, r.next, i)

\* expand_tree on tt = s[p], with itr standing at p + 1; next is where itr stands after
expand_tree(self, s, p, i) ==
    LET tt == s[p] IN
    IF tt.k = "group"
    THEN [ts |-> <<Group(tt.t, expand_index_from(self, tt.s, 1, i), tt.sp)>>, next |-> p + 1]
    ELSE IF tt.k = "ident" /\ tt.t = self.ident.t
    THEN [ts |-> <<IndexLiteral(tt, i)>>, next |-> p + 1]
    ELSE IF tt.k = "ident"
    THEN IF SpliceAhead(self, s, p)
         THEN Splice(self, s, p, i)
         ELSE [ts |-> <<tt>>, next |-> p + 1]
    ELSE [ts |-> <<tt>>, next |-> p + 1]

expand_index(self, stream, i) == expand_index_from(self, stream, 1, i)

(***************************************************************************)
(* SeqAst::range.  The result is Ok(lo..hi), Err(msg at sp), or the panic  *)
(* of `to + 1`.  checks: whether the build has overflow checks (a debug    *)
(* build panics on `to + 1` overflowing, a release build wraps to 0).      *)
(***************************************************************************)
RangeOk(lo, hi) == [kind |-> "ok", lo |-> lo, hi |-> hi, msg |-> "", sp |-> 0]

RangeErr(msg, sp) == [kind |-> "err", lo |-> Zero, hi |-> Zero, msg |-> msg, sp |-> sp]

RangePanic == [kind |-> "panic", lo |-> Zero, hi |-> Zero, msg |-> "attempt to add with overflow", sp |-> 0]

\* `to + 1` on u64
AddOne(to, checks) ==
    IF to = U64Max
    THEN IF checks THEN RangePanic ELSE RangeOk(Zero, Zero)
    ELSE RangeOk(Zero, Succ(to))

\* range with the diagnostic positioned at the end literal
RangeErrAtTo(self, checks) ==
    LET from == base10_parse(self.from)
        to == base10_parse(self.to)
    IN  IF ~from.ok THEN RangeErr("number too large to fit in target type", self.from.sp)
        ELSE IF ~to.ok THEN RangeErr("number too large to fit in target type", self.to.sp)
        ELSE IF NumLess(to.val, from.val) THEN RangeErr("invalid range", self.to.sp)
        ELSE IF self.inclusive
        THEN LET hi == AddOne(to.val, checks)
             IN  IF hi.kind = "panic" THEN RangePanic ELSE RangeOk(from.val, hi.hi)
        ELSE RangeOk(from.val, to.val)

\* range that takes every range as inclusive
RangeAlwaysInclusive(self, checks) ==
    LET from == base10_parse(self.from)
        to == base10_parse(self.to)
    IN  IF ~from.ok THEN RangeErr("number too large to fit in target type", self.from.sp)
        ELSE IF ~to.ok THEN RangeErr("number too large to fit in target type", self.to.sp)
        ELSE IF NumLess(to.val, from.val) THEN RangeErr("invalid range", self.from.sp)
        ELSE LET hi == AddOne(to.val, checks)
             IN  IF hi.kind = "panic" THEN RangePanic ELSE RangeOk(from.val, hi.hi)

range(self, checks) ==
    LET from == base10_parse(self.from)
        to == base10_parse(self.to)
    IN  IF ~from.ok THEN RangeErr("number too large to fit in target type", self.from.sp)
        ELSE IF ~to.ok THEN RangeErr("number too large to fit in target type", self.to.sp)
        ELSE IF NumLess(to.val, from.val) THEN RangeErr("invalid range", self.from.sp)
        ELSE IF self.inclusive
        THEN LET hi == AddOne(to.val, checks)
             IN  IF hi.kind = "panic" THEN RangePanic ELSE RangeOk(from.val, hi.hi)
        ELSE RangeOk(from.val, to.val)

\* the values the iterator lo..hi yields, in order
RECURSIVE Indices(_, _)
Indices(lo, hi) ==
    IF NumLess(lo, hi) THEN <<lo>> \o Indices(Succ(lo), hi) ELSE <<>>

\* range.map(|i| self.expand_index(stream.clone(), i)).collect()
RECURSIVE MapCollect(_, _, _, _)
MapCollect(self, stream, idx, n) ==
    IF n > Len(idx) THEN <<>>
    ELSE expand_index(self, stream, idx[n]) \o MapCollect(self, stream, idx, n + 1)

\* expand_range.  The result is [ts, panic]: the tokens, or the panic of range()
expand_range(self, stream, checks) ==
    LET r == range(self, checks) IN
    IF r.kind = "panic" THEN [ts |-> <<>>, panic |-> TRUE]
    ELSE IF r.kind = "err" THEN [ts |-> <<CompileError(r.msg, r.sp)>>, panic |-> FALSE]
    ELSE [ts |-> MapCollect(self, stream, Indices(r.lo, r.hi), 1), panic |-> FALSE]

(***************************************************************************)
(* Section scanner: expand_sections / expand_section.                      *)
(***************************************************************************)
RECURSIVE expand_sections_from(_, _, _, _)
RECURSIVE expand_section(_, _, _, _)

\* the lookahead of expand_section: (seek.next(), seek.next()) is (`(...)`, `*`)
MarkerAhead(s, p) ==
    /\ p + 2 <= Len(s)
    /\ s[p + 1].k = "group" /\ s[p + 1].t = "paren"
    /\ s[p + 2].k = "punct" /\ s[p + 2].t = "*"

\* expand_sections: the while loop over the stream, cursor at p
expand_sections_from(self, s, p, checks) ==
    IF p > Len(s) THEN [ts |-> <<>>, found |-> FALSE, panic |-> FALSE]
    ELSE LET r == expand_section(self, s, p, checks)
             rest == expand_sections_from(self, s, r.next, checks)
         IN  [ts |-> r.ts \o rest.ts,
              found |-> r.found \/ rest.found,
              panic |-> r.panic \/ rest.panic]

\* expand_section whose failed lookahead keeps the advanced iterator (`itr` itself
\* is advanced instead of the clone `seek`)
ExpandSectionConsuming(self, s, p, checks) ==
    LET tt == s[p] IN
    IF tt.k = "group"
    THEN LET exp == expand_sections_from(self, tt.s, 1, checks)
         IN  [ts |-> <<Group(tt.t, exp.ts, tt.sp)>>, found |-> exp.found,
              next |-> p + 1, panic |-> exp.panic]
    ELSE IF tt.k = "punct" /\ tt.t = "#"
    THEN IF MarkerAhead(s, p)
         THEN LET exp == expand_range(self, s[p + 1].s, checks)
              IN  [ts |-> exp.ts, found |-> TRUE, next |-> p + 3, panic |-> exp.panic]
         ELSE [ts |-> <<tt>>, found |-> FALSE, next |-> p + 3, panic |-> FALSE]
    ELSE [ts |-> <<tt>>, found |-> FALSE, next |-> p + 1, panic |-> FALSE]

\* expand_section that scans the content of a confirmed marker for sections
\* before expanding it for the range
ExpandSectionRecursing(self, s, p, checks) ==
    LET tt == s[p] IN
    IF tt.k = "group"
    THEN LET exp == expand_sections_from(self, tt.s, 1, checks)
         IN  [ts |-> <<Group(tt.t, exp.ts, tt.sp)>>, found |-> exp.found,
              next |-> p + 1, panic |-> exp.panic]
    ELSE IF tt.k = "punct" /\ tt.t = "#"
    THEN IF MarkerAhead(s, p)
         THEN LET sec == expand_sections_from(self, s[p + 1].s, 1, checks)
                  exp == expand_range(self, sec.ts, checks)
              IN  [ts |-> exp.ts, found |-> TRUE, next |-> p + 3,
                   panic |-> exp.panic \/ sec.panic]
         ELSE [ts |-> <<tt>>, found |-> FALSE, next |-> p + 1, panic |-> FALSE]
    ELSE [ts |-> <<tt>>, found |-> FALSE, next |-> p + 1, panic |-> FALSE]

\* expand_section on tt = s[p], with itr standing at p + 1
expand_section(self, s, p, checks) ==
    LET tt == s[p] IN
    IF tt.k = "group"
    THEN LET exp == expand_sections_from(self, tt.s, 1, checks)
         IN  [ts |-> <<Group(tt.t, exp.ts, tt.sp)>>, found |-> exp.found,
              next |-> p + 1, panic |-> exp.panic]
    ELSE IF tt.k = "punct" /\ tt.t = "#"
    THEN IF MarkerAhead(s, p)
         THEN LET exp == expand_range(self, s[p + 1].s, checks)
              IN  [ts |-> exp.ts, found |-> TRUE, next |-> p + 3, panic |-> exp.panic]
         ELSE [ts |-> <<tt>>, found |-> FALSE, next |-> p + 1, panic |-> FALSE]
    ELSE [ts |-> <<tt>>, found |-> FALSE, next |-> p + 1, panic |-> FALSE]

expand_sections(self, stream, checks) == expand_sections_from(self, stream, 1, checks)

(***************************************************************************)
(* Header parser: impl Parse for SeqAst, run by parse_macro_input! on the  *)
(* whole invocation stream (trailing tokens are an error).                 *)
(***************************************************************************)
Keywords == {"in"}

\* Ident::parse accepts an identifier that is no keyword
IsIdent(tok) == tok.k = "ident" /\ tok.t \notin Keywords

IsIn(tok) == tok.k = "ident" /\ tok.t = "in"

IsLitInt(tok) == tok.k = "lit"

IsRangeOp(tok) == tok.k = "punct" /\ tok.t \in {"..", "..="}

IsBraced(tok) == tok.k = "group" /\ tok.t = "brace"

\* a syn parse error at token p of inp, or at the end of the input
ParseFail(inp, p, msg) ==
    [ok |-> FALSE, ast |-> NoAst,
     err |-> IF p > Len(inp)
             THEN CompileError("unexpected end of input, " \o msg, 0)
             ELSE CompileError(msg, inp[p].sp)]

\* parse that does not require the keyword `in`
ParseSkipIn(inp) ==
    IF 1 > Len(inp) \/ ~IsIdent(inp[1]) THEN ParseFail(inp, 1, "expected identifier")
    ELSE IF 3 > Len(inp) \/ ~IsLitInt(inp[3]) THEN ParseFail(inp, 3, "expected integer literal")
    ELSE IF 4 > Len(inp) \/ ~IsRangeOp(inp[4]) THEN ParseFail(inp, 4, "expected ..")
    ELSE IF 5 > Len(inp) \/ ~IsLitInt(inp[5]) THEN ParseFail(inp, 5, "expected integer literal")
    ELSE IF 6 > Len(inp) \/ ~IsBraced(inp[6]) THEN ParseFail(inp, 6, "expected curly braces")
    ELSE IF Len(inp) > 6 THEN ParseFail(inp, 7, "unexpected token")
    ELSE [ok |-> TRUE,
          ast |-> [ident |-> inp[1], from |-> inp[3], to |-> inp[5],
                   inclusive |-> (inp[4].t = "..="), content |-> inp[6].s,
                   parsed |-> TRUE],
          err |-> CompileError("", 0)]

parse(inp) ==
    IF 1 > Len(inp) \/ ~IsIdent(inp[1]) THEN ParseFail(inp, 1, "expected identifier")
    ELSE IF 2 > Len(inp) \/ ~IsIn(inp[2]) THEN ParseFail(inp, 2, "expected in")
    ELSE IF 3 > Len(inp) \/ ~IsLitInt(inp[3]) THEN ParseFail(inp, 3, "expected integer literal")
    ELSE IF 4 > Len(inp) \/ ~IsRangeOp(inp[4]) THEN ParseFail(inp, 4, "expected ..")
    ELSE IF 5 > Len(inp) \/ ~IsLitInt(inp[5]) THEN ParseFail(inp, 5, "expected integer literal")
    ELSE IF 6 > Len(inp) \/ ~IsBraced(inp[6]) THEN ParseFail(inp, 6, "expected curly braces")
    ELSE IF Len(inp) > 6 THEN ParseFail(inp, 7, "unexpected token")
    ELSE [ok |-> TRUE,
          ast |-> [ident |-> inp[1], from |-> inp[3], to |-> inp[5],
                   inclusive |-> (inp[4].t = "..="), content |-> inp[6].s,
                   parsed |-> TRUE],
          err |-> CompileError("", 0)]

(***************************************************************************)
(* Inputs.  Body tokens carry span 7; the six header tokens carry their    *)
(* position 1..6 as span; span 0 is Span::call_site().                     *)
(***************************************************************************)
MaxInner == 3   \* length of a flat token sequence
MaxDepth == 1   \* number of groups wrapped around a body
MaxSpan == 2    \* distance between the two range literals

N == Ident("N", 7)

F == Ident("f", 7)

G == Ident("g", 7)

Tilde == Punct("~", 7)

Hash == Punct("#", 7)

Star == Punct("*", 7)

Seven == Lit(<<7>>, "", 7)

SeqsUpTo(A, n) == UNION {[1..k -> A] : k \in 0..n}

Marker(inner) == <<Hash, Group("paren", inner, 7), Star>>

\* d groups around b: brackets at odd depth, parentheses at even depth
RECURSIVE Nest(_, _)
Nest(d, b) ==
    IF d = 0 THEN b
    ELSE <<N, Group(IF d % 2 = 1 THEN "bracket" ELSE "paren", Nest(d - 1, b), 7)>>

Inner == SeqsUpTo({N, F, Tilde}, MaxInner)

Tiny == {<<>>, <<N>>, <<F, Tilde, N>>}

Pads ==
    {<<<<>>, <<>>>>, <<<<N>>, <<F, Tilde, N>>>>, <<<<F, Tilde, N>>, <<Hash>>>>,
     <<<<Seven, G>>, <<G, Tilde>>>>}

\* bodies without a section marker
PlainBodies == {Nest(d, b) : d \in 0..MaxDepth, b \in Inner}

\* bodies with exactly one section marker, d groups deep
OneMarkerBodies ==
    {Nest(d, pad[1] \o Marker(c) \o pad[2]) : d \in 0..MaxDepth, pad \in Pads, c \in Inner}

\* bodies with two section markers, side by side or at different depths
TwoMarkerBodies ==
    {Marker(a) \o Marker(b) : a \in Tiny, b \in Tiny}
        \cup {Marker(a) \o <<F, Group("brace", Marker(b), 7)>> : a \in Tiny, b \in Tiny}

\* a section marker inside the content of a section marker
NestedMarkerBodies ==
    {Marker(<<F>> \o Marker(c)) : c \in Tiny}
        \cup {Marker(<<Group("bracket", Marker(c), 7)>>) : c \in Tiny}
        \cup {<<N>> \o Marker(Marker(c)) \o <<F>> : c \in Tiny}

\* `#` that starts no section marker
UnmatchedBodies ==
    {<<Hash, Group(dl, c, 7)>> \o tail :
        dl \in {"paren", "bracket"}, c \in {<<N>>, Marker(<<N>>)},
        tail \in {<<>>, <<Star>>, <<F>>}}
        \ {Marker(<<N>>), Marker(Marker(<<N>>))}

Bodies ==
    PlainBodies \cup OneMarkerBodies \cup TwoMarkerBodies
        \cup NestedMarkerBodies \cup UnmatchedBodies

SmallBodies ==
    {<<>>, <<N>>, <<F, Tilde, N>>, Marker(<<N>>),
     <<F>> \o Marker(<<F, Tilde, N>>) \o <<N>>,
     Marker(<<N>>) \o Marker(<<F>>)}

RECURSIVE SuccN(_, _)
SuccN(a, k) == IF k = 0 THEN a ELSE SuccN(Succ(a), k - 1)

\* u64::MAX - 1
NearMax == <<1,8,4,4,6,7,4,4,0,7,3,7,0,9,5,5,1,6,1,4>>

\* (from, to) literal pairs at most MaxSpan apart, in either order
LitPairs(base) ==
    {<<base, SuccN(base, k)>> : k \in 0..MaxSpan}
        \cup {<<SuccN(base, k), base>> : k \in 1..MaxSpan}

Header(binding, from, op, to, body) ==
    <<Ident(binding, 1), Ident("in", 2), Lit(from, "", 3), Punct(op, 4),
      Lit(to, "", 5), Group("brace", body, 6)>>

GoodInputs ==
    {Header("N", pr[1], op, pr[2], b) :
        pr \in LitPairs(Zero), op \in {"..", "..="}, b \in Bodies}
        \cup {Header("N", pr[1], op, pr[2], b) :
                pr \in LitPairs(NearMax), op \in {"..", "..="}, b \in SmallBodies}

\* tokens that are of the wrong kind at some position of the header
WrongTokens ==
    {Ident("x", 9), Ident("in", 9), Lit(<<1>>, "", 9), Punct("..", 9),
     Punct("+", 9), Group("brace", <<N>>, 9), Group("paren", <<N>>, 9)}

Remove(s, p) == SubSeq(s, 1, p - 1) \o SubSeq(s, p + 1, Len(s))

\* a well-formed header with one token removed, replaced or added
EditedInputs ==
    LET h == Header("N", Zero, "..", <<2>>, <<N>>) IN
    {Remove(h, p) : p \in 1..6}
        \cup {[h EXCEPT ![p] = w] : p \in 1..6, w \in WrongTokens}
        \cup {SubSeq(h, 1, p - 1) \o <<w>> \o SubSeq(h, p, 6) : p \in 1..7, w \in WrongTokens}
        \cup {SubSeq(h, 1, p) : p \in 0..5}

SeqInputs == GoodInputs \cup EditedInputs

(***************************************************************************)
(* The macro `seq` as a state machine over one invocation.                 *)
(***************************************************************************)
Idle == /\ variants = <<>> /\ checked = <<>> /\ pos = 0
        /\ walk = [stream |-> <<>>, i |-> Zero, binding |-> "N", out |-> <<>>]

Init ==
    /\ pc = "ParsingHeader"
    /\ input \in SeqInputs
    /\ ast = NoAst
    /\ expanded = <<>>
    /\ found = FALSE
    /\ output = <<>>
    /\ Idle

\* seq, line 12: syn::parse_macro_input!(input as SeqAst)
ParseHeader ==
    /\ pc = "ParsingHeader"
    /\ LET r == parse(input) IN
       IF r.ok
       THEN /\ ast' = r.ast
            /\ pc' = "SectionScanning"
            /\ UNCHANGED output
       ELSE /\ output' = <<r.err>>
            /\ pc' = "Done"
            /\ UNCHANGED ast
    /\ UNCHANGED <<input, expanded, found, variants, checked, pos, walk>>

\* expand, line 57: self.expand_sections(self.content.clone())
ScanSections ==
    /\ pc = "SectionScanning"
    /\ \E checks \in BOOLEAN :
        LET sec == expand_sections(ast, ast.content, checks) IN
        IF sec.panic
        THEN /\ pc' = "Panicked"
             /\ UNCHANGED <<expanded, found>>
        ELSE /\ expanded' = sec.ts
             /\ found' = sec.found
             /\ pc' = IF sec.found THEN "SectionsExpanded" ELSE "NoSections"
    /\ UNCHANGED <<input, ast, output, variants, checked, pos, walk>>

\* expand, lines 58-61: the whole-body fallback
ExpandWholeBody ==
    /\ pc = "NoSections"
    /\ \E checks \in BOOLEAN :
        LET r == expand_range(ast, ast.content, checks) IN
        IF r.panic
        THEN /\ pc' = "Panicked"
             /\ UNCHANGED expanded
        ELSE /\ expanded' = r.ts
             /\ pc' = "WholeBodyExpanded"
    /\ UNCHANGED <<input, ast, found, output, variants, checked, pos, walk>>

\* seq, line 14: ast.expand().into()
Return ==
    /\ pc \in {"SectionsExpanded", "WholeBodyExpanded"}
    /\ output' = expanded
    /\ pc' = "Done"
    /\ UNCHANGED <<input, ast, expanded, found, variants, checked, pos, walk>>

Next == ParseHeader \/ ScanSections \/ ExpandWholeBody \/ Return

Spec == Init /\ [][Next]_vars

(***************************************************************************)
(* Reading of an invocation, used to state the properties: what the input  *)
(* is, independently of what the parser makes of it.                       *)
(***************************************************************************)
\* token p of the invocation is missing, of the wrong kind, or one too many
BadAt(inp, p) ==
    IF p > Len(inp) THEN p <= 6
    ELSE CASE p = 1 -> ~(inp[1].k = "ident" /\ inp[1].t # "in")
           [] p = 2 -> ~(inp[2].k = "ident" /\ inp[2].t = "in")
           [] p = 3 -> inp[3].k # "lit"
           [] p = 4 -> ~(inp[4].k = "punct" /\ (inp[4].t = ".." \/ inp[4].t = "..="))
           [] p = 5 -> inp[5].k # "lit"
           [] p = 6 -> ~(inp[6].k = "group" /\ inp[6].t = "brace")
           [] OTHER -> TRUE

WellFormed(inp) == \A p \in 1..(Len(inp) + 1) : ~BadAt(inp, p)

FirstBad(inp) ==
    CHOOSE p \in 1..(Len(inp) + 1) : BadAt(inp, p) /\ \A q \in 1..(p - 1) : ~BadAt(inp, q)

Start == input[3].v

End == input[5].v

Inclusive == input[4].t = "..="

Body == input[6].s

Fits(n) == ~NumLess(U64Max, n)

ValidRange == WellFormed(input) /\ Fits(Start) /\ Fits(End) /\ ~NumLess(End, Start)

InvalidRange == WellFormed(input) /\ Fits(Start) /\ Fits(End) /\ NumLess(End, Start)

EmptyRange == WellFormed(input) /\ Fits(Start) /\ Start = End /\ ~Inclusive

IsMarkerAt(s, p) ==
    /\ p + 2 <= Len(s)
    /\ s[p] = Hash
    /\ s[p + 1].k = "group" /\ s[p + 1].t = "paren"
    /\ s[p + 2] = Star

\* number of `#( ... )*` patterns in s, at any depth
SumOver(f, n) ==
    LET RECURSIVE Sum(_)
        Sum(k) == IF k = 0 THEN 0 ELSE f[k] + Sum(k - 1)
    IN  Sum(n)

RECURSIVE MarkerCount(_)
MarkerCount(s) ==
    SumOver([p \in 1..Len(s) |->
                (IF IsMarkerAt(s, p) THEN 1 ELSE 0)
                    + (IF s[p].k = "group" THEN MarkerCount(s[p].s) ELSE 0)],
            Len(s))

\* number of diagnostics in s, at any depth
RECURSIVE CountErrors(_)
CountErrors(s) ==
    SumOver([p \in 1..Len(s) |->
                IF s[p].k = "error" THEN 1
                ELSE IF s[p].k = "group" THEN CountErrors(s[p].s) ELSE 0],
            Len(s))

\* s holds, at some depth, the diagnostic msg positioned at sp
RECURSIVE HasError(_, _, _)
HasError(s, msg, sp) ==
    \E p \in 1..Len(s) :
        \/ s[p] = CompileError(msg, sp)
        \/ s[p].k = "group" /\ HasError(s[p].s, msg, sp)

\* s without its diagnostics
RECURSIVE StripErrors(_)
StripErrors(s) ==
    IF s = <<>> THEN <<>>
    ELSE LET h == Head(s) IN
         (IF h.k = "error" THEN <<>>
          ELSE IF h.k = "group" THEN <<[h EXCEPT !.s = StripErrors(h.s)]>>
          ELSE <<h>>) \o StripErrors(Tail(s))

\* start, start+1, ..., end - 1 (start <= end)
RECURSIVE Below(_, _)
Below(a, b) == IF a = b THEN <<>> ELSE <<a>> \o Below(Succ(a), b)

\* the indices of the range the header denotes
HeaderIndices == IF Inclusive THEN Below(Start, End) \o <<End>> ELSE Below(Start, End)

\* one walker pass of stream per index of idx, concatenated in order
RECURSIVE Copies(_, _)
Copies(stream, idx) ==
    IF idx = <<>> THEN <<>>
    ELSE expand_index([ident |-> input[1]], stream, Head(idx)) \o Copies(stream, Tail(idx))

\* s with every section marker replaced in place: by rep, or (perIndex) by the
\* copies of its content for idx; all other tokens as they are
RECURSIVE Replaced(_, _, _, _)
Replaced(s, perIndex, rep, idx) ==
    IF s = <<>> THEN <<>>
    ELSE IF IsMarkerAt(s, 1)
    THEN (IF perIndex THEN Copies(s[2].s, idx) ELSE rep)
            \o Replaced(SubSeq(s, 4, Len(s)), perIndex, rep, idx)
    ELSE IF s[1].k = "group"
    THEN <<[s[1] EXCEPT !.s = Replaced(s[1].s, perIndex, rep, idx)]>>
            \o Replaced(Tail(s), perIndex, rep, idx)
    ELSE <<s[1]>> \o Replaced(Tail(s), perIndex, rep, idx)

(***************************************************************************)
(* Properties of `seq` (specification Spec).                               *)
(***************************************************************************)

\* C1: for start <= end and a body without section marker at any depth,
\* expand() returns one copy of the body per index of the range, in ascending
\* order: end - start copies (exclusive) or end - start + 1 copies (inclusive),
\* the k-th being the walker's pass of the body for index start + k.
C1_WholeBodyCopies ==
    (ValidRange /\ MarkerCount(Body) = 0) =>
        /\ pc # "Panicked"
        /\ pc = "Done" => output = Copies(Body, HeaderIndices)

\* C2: for a body with exactly one section marker (at any depth) and every
\* valid range, expand() returns the body with the marker replaced in place by
\* the per-index expansions of its content, in ascending order, every other
\* token unchanged and in place.
C2_OneMarkerInPlace ==
    (ValidRange /\ MarkerCount(Body) = 1) =>
        /\ pc # "Panicked"
        /\ pc = "Done" => output = Replaced(Body, TRUE, <<>>, HeaderIndices)

\* The part of C1 the code satisfies: it holds whenever `to + 1` is not computed
\* on u64::MAX.
WholeBodyCopiesBelowMax ==
    (WellFormed(input) /\ ~(Inclusive /\ End = U64Max)) => C1_WholeBodyCopies

\* The part of C2 the code satisfies, likewise.
OneMarkerInPlaceBelowMax ==
    (WellFormed(input) /\ ~(Inclusive /\ End = U64Max)) => C2_OneMarkerInPlace

\* C3: when both literals parse as u64 and start > end, expand() does not
\* panic, its output holds an "invalid range" diagnostic positioned at the
\* start literal, and no copy of the body or of a marked section is produced:
\* apart from diagnostics the output is empty (no marker) or the body without
\* its markers.
C3_InvalidRangeDiagnostic ==
    InvalidRange =>
        /\ pc # "Panicked"
        /\ pc = "Done" =>
            /\ HasError(output, "invalid range", input[3].sp)
            /\ StripErrors(output) =
                  IF MarkerCount(Body) = 0 THEN <<>> ELSE Replaced(Body, FALSE, <<>>, <<>>)

\* C3 witness: an invalid range over a body with a section marker, expanded
C3_Witness ==
    /\ InvalidRange /\ pc = "Done" /\ found
    /\ Len(output) > 1

\* C4: when start > end the output of one invocation holds exactly one
\* diagnostic, whatever the number of section markers in the body.
C4_SingleDiagnostic ==
    (InvalidRange /\ pc = "Done") => CountErrors(output) = 1

\* C5: for an exclusive range with start = end there is no diagnostic and no
\* copy: a marker-free body gives the empty output, and with markers each
\* marker is replaced by nothing while the surrounding tokens remain.
C5_EmptyRange ==
    EmptyRange =>
        /\ pc # "Panicked"
        /\ pc = "Done" =>
            /\ CountErrors(output) = 0
            /\ output = IF MarkerCount(Body) = 0 THEN <<>>
                        ELSE Replaced(Body, FALSE, <<>>, <<>>)

\* C5 witness: an empty range over a body with a marker and tokens around it
C5_Witness ==
    /\ EmptyRange /\ pc = "Done" /\ found
    /\ output # <<>>

\* C6: a start or end literal that does not fit in u64 makes header parsing
\* fail: no section scanning or expansion takes place and the output is only
\* the error positioned at that literal.
C6_BadLiteralFailsParsing ==
    (WellFormed(input) /\ (~Fits(Start) \/ ~Fits(End))) =>
        /\ pc \in {"ParsingHeader", "Done"}
        /\ ~ast.parsed
        /\ pc = "Done" =>
            /\ Len(output) = 1 /\ output[1].k = "error"
            /\ output[1].sp = IF ~Fits(Start) THEN input[3].sp ELSE input[5].sp

\* C7: header parsing accepts exactly identifier, `in`, integer literal,
\* `..` or `..=`, integer literal, brace group; otherwise it fails at the first
\* offending token, expand() is never called and the output is only the error.
C7_HeaderOrder ==
    /\ pc # "ParsingHeader" => (ast.parsed <=> WellFormed(input))
    /\ (pc # "ParsingHeader" /\ ~WellFormed(input)) =>
        /\ pc = "Done"
        /\ expanded = <<>> /\ found = FALSE
        /\ Len(output) = 1 /\ output[1].k = "error"
        /\ output[1].sp = IF FirstBad(input) > Len(input) THEN 0
                          ELSE input[FirstBad(input)].sp

\* C7 witness: a header whose second token is not `in`, rejected
C7_Witness ==
    /\ pc = "Done" /\ Len(input) >= 6
    /\ FirstBad(input) = 2

(***************************************************************************)
(* The Index Substitution Walker on its own (specification SpecWalker):    *)
(* one call of expand_index on a stream, for a binding and an index.       *)
(***************************************************************************)
WalkAtoms == {N, F, G, Tilde, Seven}

WalkIndices == {Zero, <<1, 0>>, U64Max}

WalkBindings == {"N", "g"}

Delimiters == {"paren", "bracket", "brace"}

\* core inside one group per delimiter of dl, outermost first
RECURSIVE Wrapped(_, _)
Wrapped(dl, core) ==
    IF dl = <<>> THEN core
    ELSE <<Group(Head(dl), Wrapped(Tail(dl), core), 7)>>

WalkStreams ==
    {Wrapped(dl, core) : dl \in SeqsUpTo(Delimiters, MaxDepth),
                         core \in SeqsUpTo(WalkAtoms, MaxInner)}

WalkSelf == [ident |-> Ident(walk.binding, 1)]

InitWalker ==
    /\ pc = "Walking"
    /\ walk \in {[stream |-> st, i |-> i, binding |-> b, out |-> <<>>] :
                    st \in WalkStreams, i \in WalkIndices, b \in WalkBindings}
    /\ input = <<>> /\ ast = NoAst /\ expanded = <<>> /\ found = FALSE /\ output = <<>>
    /\ variants = <<>> /\ checked = <<>> /\ pos = 0

\* self.expand_index(stream, i)
Walk ==
    /\ pc = "Walking"
    /\ walk' = [walk EXCEPT !.out = expand_index(WalkSelf, walk.stream, walk.i)]
    /\ pc' = "Walked"
    /\ UNCHANGED <<input, ast, expanded, found, output, variants, checked, pos>>

NextWalker == Walk

SpecWalker == InitWalker /\ [][NextWalker]_vars

\* the delimiters of the chain of single groups around the core of s
RECURSIVE Chain(_)
Chain(s) ==
    IF Len(s) = 1 /\ s[1].k = "group" THEN <<s[1].t>> \o Chain(s[1].s) ELSE <<>>

\* the core of s: what is inside its chain of single groups
RECURSIVE Core(_)
Core(s) == IF Len(s) = 1 /\ s[1].k = "group" THEN Core(s[1].s) ELSE s

\* the decimal text of the indices walked
IndexText(i) ==
    CASE i = Zero -> "0"
      [] i = <<1, 0>> -> "10"
      [] i = U64Max -> "18446744073709551615"

\* `name ~ Binding` stands at position p of the flat sequence c
SpliceAt(c, p) ==
    /\ p + 2 <= Len(c)
    /\ c[p].k = "ident" /\ c[p].t # walk.binding
    /\ c[p + 1] = Tilde
    /\ c[p + 2].k = "ident" /\ c[p + 2].t = walk.binding

\* C8: for every index i and depth d, `name ~ Binding` inside d nested groups
\* is rewritten to the single identifier name<i> (name followed by the decimal
\* text of i), as at depth 0, inside d rebuilt groups of the same delimiters;
\* the `~` and the binding of the splice are not in the output.
C8_SpliceAtAnyDepth ==
    pc = "Walked" =>
        \A p \in 1..Len(Core(walk.stream)) :
            SpliceAt(Core(walk.stream), p) =>
                LET c == Core(walk.stream)
                    before == expand_index(WalkSelf, SubSeq(c, 1, p - 1), walk.i)
                    after == expand_index(WalkSelf, SubSeq(c, p + 3, Len(c)), walk.i)
                    spliced == Ident(c[p].t \o IndexText(walk.i), 7)
                IN  walk.out = Wrapped(Chain(walk.stream), before \o <<spliced>> \o after)

\* C8 witness: `f ~ N` one group deep or deeper, walked for index u64::MAX
C8_Witness ==
    /\ pc = "Walked" /\ walk.i = U64Max /\ walk.binding = "N"
    /\ Len(Chain(walk.stream)) >= 1
    /\ Core(walk.stream) = <<F, Tilde, N>>

\* no identifier of s, at any depth, is the binding
RECURSIVE NoBinding(_)
NoBinding(s) ==
    \A p \in 1..Len(s) :
        /\ ~(s[p].k = "ident" /\ s[p].t = walk.binding)
        /\ s[p].k = "group" => NoBinding(s[p].s)

\* C9: a token sequence without an identifier equal to the binding, at any
\* depth, is returned by expand_index equal to its input, for every index.
C9_PassThrough ==
    (pc = "Walked" /\ NoBinding(walk.stream)) => walk.out = walk.stream

\* C9 witness: `f ~ g` inside a group, with binding N, walked
C9_Witness ==
    /\ pc = "Walked" /\ walk.binding = "N"
    /\ Len(Chain(walk.stream)) >= 1
    /\ Core(walk.stream) = <<F, Tilde, G>>

(***************************************************************************)
(* The attribute macro `sorted` on an item (specification SpecSorted).     *)
(* A name is the sequence of its characters; an item is its kind and the   *)
(* names of its variants (or fields) in declaration order; the span of a   *)
(* variant is its position.  The output is the item followed by the        *)
(* diagnostics appended to it.                                             *)
(***************************************************************************)
MaxName == 2       \* characters of a variant name
MaxVariants == 3   \* variants of an enum

Chars == {"A", "B"}

CharCode == [c \in Chars |-> IF c = "A" THEN 65 ELSE 66]

Names == SeqsUpTo(Chars, MaxName) \ {<<>>}

\* a < b on strings: bytewise lexicographic, a proper prefix is smaller
RECURSIVE StrLessFrom(_, _, _)
StrLessFrom(a, b, p) ==
    IF p > Len(a) THEN p <= Len(b)
    ELSE IF p > Len(b) THEN FALSE
    ELSE IF CharCode[a[p]] < CharCode[b[p]] THEN TRUE
    ELSE IF CharCode[a[p]] > CharCode[b[p]] THEN FALSE
    ELSE StrLessFrom(a, b, p + 1)

StrLess(a, b) == StrLessFrom(a, b, 1)

\* the text of a name
RECURSIVE Text(_)
Text(name) == IF name = <<>> THEN "" ELSE Head(name) \o Text(Tail(name))

\* slice::binary_search: [found, idx], idx 0-based; the loop of the standard library
RECURSIVE BinarySearchLoop(_, _, _, _)
BinarySearchLoop(list, name, base, size) ==
    IF size > 1
    THEN LET half == size \div 2
             mid == base + half
         IN  BinarySearchLoop(list, name,
                              IF StrLess(name, list[mid + 1]) THEN base ELSE mid,
                              size - half)
    ELSE IF list[base + 1] = name THEN [found |-> TRUE, idx |-> base]
    ELSE [found |-> FALSE,
          idx |-> base + (IF StrLess(list[base + 1], name) THEN 1 ELSE 0)]

binary_search(list, name) ==
    IF Len(list) = 0 THEN [found |-> FALSE, idx |-> 0]
    ELSE BinarySearchLoop(list, name, 0, Len(list))

\* enum_variants: the variant names of an enum, nothing for another item
enum_variants(item) ==
    IF item.kind = "enum" THEN [some |-> TRUE, names |-> item.names]
    ELSE [some |-> FALSE, names |-> <<>>]

Items ==
    {[kind |-> "enum", names |-> ns] : ns \in SeqsUpTo(Names, MaxVariants)}
        \cup {[kind |-> "struct", names |-> ns] : ns \in SeqsUpTo(Names, 1)}

InitSorted ==
    /\ pc = "Sorted"
    /\ input \in Items
    /\ output = <<>>
    /\ variants = <<>> /\ checked = <<>> /\ pos = 0
    /\ ast = NoAst /\ expanded = <<>> /\ found = FALSE
    /\ walk = [stream |-> <<>>, i |-> Zero, binding |-> "N", out |-> <<>>]

\* sorted, lines 9-11 and 15-19: clone the input, parse the item, take the variants
SortedEnter ==
    /\ pc = "Sorted"
    /\ LET vs == enum_variants(input) IN
       IF vs.some
       THEN /\ variants' = vs.names
            /\ checked' = <<>>
            /\ pos' = 1
            /\ pc' = "Checking"
            /\ UNCHANGED output
       ELSE /\ output' = <<input, CompileError("expected enum or match expression", 0)>>
            /\ pc' = "Done"
            /\ UNCHANGED <<variants, checked, pos>>
    /\ UNCHANGED <<input, ast, expanded, found, walk>>

\* check_sorted, lines 33-43: one iteration of the loop; on Err, sorted lines 12-14, 19
CheckVariant ==
    /\ pc = "Checking"
    /\ pos <= Len(variants)
    /\ LET name == variants[pos] IN
       IF checked # <<>> /\ StrLess(name, checked[Len(checked)])
       THEN LET r == binary_search(checked, name) IN
            IF r.found \/ r.idx >= Len(checked)
            THEN \* unwrap_err() on Ok, or checked[idx] out of bounds
                 /\ pc' = "Panicked"
                 /\ UNCHANGED <<output, checked, pos>>
            ELSE /\ output' = <<input,
                                CompileError(Text(name) \o " should sort before "
                                                \o Text(checked[r.idx + 1]), pos)>>
                 /\ pc' = "Done"
                 /\ UNCHANGED <<checked, pos>>
       ELSE /\ checked' = Append(checked, name)
            /\ pos' = pos + 1
            /\ UNCHANGED <<pc, output>>
    /\ UNCHANGED <<input, variants, ast, expanded, found, walk>>

\* check_sorted, line 45, and sorted, line 19: every variant checked, no error
CheckedAll ==
    /\ pc = "Checking"
    /\ pos > Len(variants)
    /\ output' = <<input>>
    /\ pc' = "Done"
    /\ UNCHANGED <<input, variants, checked, pos, ast, expanded, found, walk>>

NextSorted == SortedEnter \/ CheckVariant \/ CheckedAll

SpecSorted == InitSorted /\ [][NextSorted]_vars

\* the positions of the variants that are smaller than their predecessor
Descents(names) == {k \in 2..Len(names) : StrLess(names[k], names[k - 1])}

FirstDescent(names) ==
    CHOOSE k \in Descents(names) : \A j \in Descents(names) : k <= j

\* the position of the first variant before k whose name is greater than names[k]
FirstGreater(names, k) ==
    CHOOSE j \in 1..(k - 1) :
        /\ StrLess(names[k], names[j])
        /\ \A h \in 1..(j - 1) : ~StrLess(names[k], names[h])

\* C10: for every enum, `sorted` returns the item unchanged, followed by one
\* error exactly when some variant is smaller than the variant before it; the
\* error is located at the first such variant X and reads "X should sort
\* before Y", Y being the first earlier variant greater than X.
C10_OrderValidator ==
    input.kind = "enum" =>
        /\ pc # "Panicked"
        /\ pc = "Done" =>
            output =
                IF Descents(input.names) = {} THEN <<input>>
                ELSE LET k == FirstDescent(input.names)
                         j == FirstGreater(input.names, k)
                     IN  <<input,
                           CompileError(Text(input.names[k]) \o " should sort before "
                                           \o Text(input.names[j]), k)>>

\* The part of C10 the code satisfies: it holds whenever the first out-of-order
\* variant does not repeat the name of an earlier variant.
OrderValidatorWithoutRepeat ==
    (input.kind = "enum" /\ Descents(input.names) # {}
        /\ \E j \in 1..(FirstDescent(input.names) - 1) :
              input.names[j] = input.names[FirstDescent(input.names)])
    \/ C10_OrderValidator

(***************************************************************************)
(* The two lookaheads side by side (specification SpecLookahead): one call *)
(* of expand_sections or of expand_index on the same stream.  The range of *)
(* the section scan is 0..2.                                               *)
(***************************************************************************)
LookAtoms ==
    {N, F, Tilde, Hash, Star,
     Group("paren", Marker(<<N>>), 7), Group("bracket", Marker(<<N>>), 7)}

LookStreams ==
    SeqsUpTo(LookAtoms, MaxInner + 1)
        \cup {<<F, Tilde, F, Tilde, N>>, <<F, Tilde, G, Tilde, N>>,
              <<Hash, Hash, Group("paren", <<F, Tilde, N>>, 7), Star, F>>,
              <<Hash, Group("paren", Marker(<<N>>), 7), Hash, Group("paren", <<N>>, 7), Star>>}

LookSelf ==
    [ident |-> Ident(walk.binding, 1), from |-> Lit(Zero, "", 3), to |-> Lit(<<2>>, "", 5),
     inclusive |-> FALSE, content |-> walk.stream, parsed |-> TRUE]

InitLookahead ==
    /\ pc = "Walking"
    /\ walk \in {[stream |-> st, i |-> <<1, 0>>, binding |-> b, out |-> <<>>] :
                    st \in LookStreams, b \in WalkBindings}
    /\ input = <<>> /\ ast = NoAst /\ expanded = <<>> /\ found = FALSE /\ output = <<>>
    /\ variants = <<>> /\ checked = <<>> /\ pos = 0

\* self.expand_sections(stream)
Scan ==
    /\ pc = "Walking"
    /\ LET sec == expand_sections(LookSelf, walk.stream, TRUE) IN
        /\ walk' = [walk EXCEPT !.out = sec.ts]
        /\ found' = sec.found
    /\ pc' = "Scanned"
    /\ UNCHANGED <<input, ast, expanded, output, variants, checked, pos>>

NextLookahead == Walk \/ Scan

SpecLookahead == InitLookahead /\ [][NextLookahead]_vars

\* number of tokens of s, groups and their contents included
RECURSIVE Size(_)
Size(s) ==
    SumOver([p \in 1..Len(s) |-> 1 + (IF s[p].k = "group" THEN Size(s[p].s) ELSE 0)],
            Len(s))

\* `#` at position p of s that starts no section marker
UnmatchedHashAt(s, p) == s[p].k = "punct" /\ s[p].t = "#" /\ ~IsMarkerAt(s, p)

\* an identifier at position p of s, not the binding, that starts no splice
UnmatchedIdentAt(s, p) ==
    s[p].k = "ident" /\ s[p].t # walk.binding /\ ~SpliceAt(s, p)

\* number of `name ~ Binding` patterns of s, at any depth
RECURSIVE SpliceCount(_)
SpliceCount(s) ==
    SumOver([p \in 1..Len(s) |->
                (IF SpliceAt(s, p) THEN 1 ELSE 0)
                    + (IF s[p].k = "group" THEN SpliceCount(s[p].s) ELSE 0)],
            Len(s))

\* C11: a failed lookahead does not move the cursor.  After an unmatched `#`
\* (section scan) or an unmatched identifier (index walk) at position p, the
\* result is the result for the tokens before p, the token at p unchanged, and
\* the result for the tokens after p, each scanned in its own right; no token
\* is dropped or duplicated: a stream without marker is scanned to itself, and
\* a walk removes exactly the `~` and binding of each matched splice.
C11_LookaheadKeepsCursor ==
    LET s == walk.stream
        before(p) == SubSeq(s, 1, p - 1)
        after(p) == SubSeq(s, p + 1, Len(s))
    IN  /\ pc = "Scanned" =>
            /\ \A p \in 1..Len(s) :
                  UnmatchedHashAt(s, p) =>
                      walk.out = expand_sections(LookSelf, before(p), TRUE).ts
                                    \o <<s[p]>>
                                    \o expand_sections(LookSelf, after(p), TRUE).ts
            /\ MarkerCount(s) = 0 => (walk.out = s /\ ~found)
        /\ pc = "Walked" =>
            /\ \A p \in 1..Len(s) :
                  UnmatchedIdentAt(s, p) =>
                      walk.out = expand_index(WalkSelf, before(p), walk.i)
                                    \o <<s[p]>>
                                    \o expand_index(WalkSelf, after(p), walk.i)
            /\ Size(walk.out) = Size(s) - 2 * SpliceCount(s)

\* C11 witness: an unmatched `#`, then a group holding a marker, then a token
\* that is not `*`: the group was still scanned and its marker expanded
C11_Witness ==
    /\ pc = "Scanned" /\ found
    /\ Len(walk.stream) = 3
    /\ UnmatchedHashAt(walk.stream, 1)
    /\ walk.stream[2].k = "group" /\ walk.stream[2].t = "paren"
    /\ walk.out[2].s = <<Lit(Zero, "", 7), Lit(<<1>>, "", 7)>>

(***************************************************************************)
(* Further properties of `seq` (specification Spec).                       *)
(***************************************************************************)

\* C12: for start <= end with the inclusive flag set, range() yields exactly
\* start, start + 1, ..., end; computing the upper bound end + 1 neither
\* panics nor wraps, for every end up to 2^64 - 1.
C12_InclusiveRange ==
    (ast.parsed /\ ValidRange /\ Inclusive) =>
        /\ pc # "Panicked"
        /\ \A checks \in BOOLEAN :
              LET r == range(ast, checks) IN
              /\ r.kind = "ok"
              /\ Indices(r.lo, r.hi) = Below(Start, End) \o <<End>>

\* The part of C12 the code satisfies: every inclusive range that does not end
\* at u64::MAX.
InclusiveRangeBelowMax ==
    (WellFormed(input) /\ End # U64Max) => C12_InclusiveRange

\* the indices the range of a valid header yields when the macro returns: none
\* when `to + 1` wrapped, else those the header denotes
YieldedIndices == IF Inclusive /\ End = U64Max THEN <<>> ELSE HeaderIndices

\* number of section markers of s that stand inside the content of a section
\* marker the scan of s confirms
RECURSIVE MarkersInMarkers(_)
MarkersInMarkers(s) ==
    IF s = <<>> THEN 0
    ELSE IF IsMarkerAt(s, 1)
    THEN MarkerCount(s[2].s) + MarkersInMarkers(SubSeq(s, 4, Len(s)))
    ELSE IF s[1].k = "group"
    THEN MarkersInMarkers(s[1].s) + MarkersInMarkers(Tail(s))
    ELSE MarkersInMarkers(Tail(s))

\* C13: a section marker inside the content of a section marker is not
\* expanded as a section.  The outer marker is replaced by one index walk of
\* its content per index, in which the inner `#`, its group (walked for the
\* index) and `*` stay ordinary tokens: the output holds one inner marker per
\* index and inner marker.
C13_InnerMarkerKept ==
    (ValidRange /\ pc = "Done" /\ MarkersInMarkers(Body) > 0) =>
        /\ output = Replaced(Body, TRUE, <<>>, YieldedIndices)
        /\ MarkerCount(output) = Len(YieldedIndices) * MarkersInMarkers(Body)

\* C13 witness: `#( f #( f~N )* )*` expanded for two indices
C13_Witness ==
    /\ ValidRange /\ pc = "Done"
    /\ Body = Marker(<<F>> \o Marker(<<F, Tilde, N>>))
    /\ Len(YieldedIndices) = 2
    /\ MarkerCount(output) = 2

(***************************************************************************)
(* `check` on a function holding one match expression (specification       *)
(* SpecCheck): MatchSortedCheck::visit_expr_match_mut walks the arms.      *)
(* `variants` holds the arms, `found` is found_wildcard, `output` is       *)
(* self.errors and `ast` the expression after the attribute is removed.    *)
(***************************************************************************)
\* a match arm: its pattern is a path (ident, path, struct or tuple struct),
\* the wildcard, or any other pattern
PathArm(name) == [pat |-> "path", name |-> name]
WildArm == [pat |-> "wild", name |-> <<>>]
OtherArm == [pat |-> "other", name |-> <<>>]

\* arm_path and path_name: the name of a path pattern, nothing for another one
arm_path(arm) ==
    IF arm.pat = "path" THEN [some |-> TRUE, name |-> arm.name]
    ELSE [some |-> FALSE, name |-> <<>>]

Arms == {PathArm(n) : n \in Names} \cup {WildArm, OtherArm}

Matches ==
    {[kind |-> "match", sorted |-> a, arms |-> as] :
        a \in BOOLEAN, as \in SeqsUpTo(Arms, MaxVariants)}

InitCheck ==
    /\ pc = "Check"
    /\ input \in Matches
    /\ output = <<>>
    /\ variants = <<>> /\ checked = <<>> /\ pos = 0
    /\ ast = NoAst /\ expanded = <<>> /\ found = FALSE
    /\ walk = [stream |-> <<>>, i |-> Zero, binding |-> "N", out |-> <<>>]

\* visit_expr_match_mut, lines 74-83: return without the attribute, else remove
\* it and start the loop over a clone of the arms
VisitMatch ==
    /\ pc = "Check"
    /\ IF ~input.sorted
       THEN /\ pc' = "Done"
            /\ UNCHANGED <<ast, variants, checked, found, pos>>
       ELSE /\ ast' = [input EXCEPT !.sorted = FALSE]
            /\ variants' = input.arms
            /\ checked' = <<>>
            /\ found' = FALSE
            /\ pos' = 1
            /\ pc' = "Visiting"
    /\ UNCHANGED <<input, output, expanded, walk>>

\* visit_expr_match_mut, lines 84-107: one iteration of the loop over the arms
VisitArm ==
    /\ pc = "Visiting"
    /\ pos <= Len(variants)
    /\ LET arm == variants[pos]
           path == arm_path(arm)
           name == path.name
           errors == IF found
                     THEN Append(output, CompileError("wildcard must be last arm", pos))
                     ELSE output
       IN  IF path.some
           THEN IF checked # <<>> /\ StrLess(name, checked[Len(checked)])
                THEN LET r == binary_search(checked, name) IN
                     IF r.found \/ r.idx >= Len(checked)
                     THEN \* unwrap_err() on Ok, or checked[idx] out of bounds
                          /\ pc' = "Panicked"
                          /\ UNCHANGED <<output, checked, pos, found>>
                     ELSE /\ output' =
                                Append(errors,
                                       CompileError(Text(name) \o " should sort before "
                                                       \o Text(checked[r.idx + 1]), pos))
                          /\ checked' = Append(checked, name)
                          /\ pos' = pos + 1
                          /\ UNCHANGED <<pc, found>>
                ELSE /\ output' = errors
                     /\ checked' = Append(checked, name)
                     /\ pos' = pos + 1
                     /\ UNCHANGED <<pc, found>>
           ELSE IF arm.pat = "wild"
           THEN /\ output' = errors
                /\ found' = TRUE
                /\ pos' = pos + 1
                /\ UNCHANGED <<pc, checked>>
           ELSE /\ output' = Append(errors, CompileError("unsupported by #[sorted]", pos))
                /\ pos' = pos + 1
                /\ UNCHANGED <<pc, checked, found>>
    /\ UNCHANGED <<input, variants, ast, expanded, walk>>

\* visit_expr_match_mut, lines 107-108: the loop ends and the visitor returns
VisitedAll ==
    /\ pc = "Visiting"
    /\ pos > Len(variants)
    /\ pc' = "Done"
    /\ UNCHANGED <<input, output, variants, checked, pos, ast, expanded, found, walk>>

NextCheck == VisitMatch \/ VisitArm \/ VisitedAll

SpecCheck == InitCheck /\ [][NextCheck]_vars

\* the loop stands before an arm whose name is smaller than the last checked one
Descending ==
    /\ pc = "Visiting"
    /\ pos <= Len(variants)
    /\ arm_path(variants[pos]).some
    /\ checked # <<>>
    /\ StrLess(variants[pos].name, checked[Len(checked)])

\* C14: the order check never panics.  Whenever the name of an arm is smaller
\* than the last checked name, the binary search over the checked names
\* (sorted or not, with or without repeated names) does not find the name and
\* its insertion index is an index of the list.
C14_OrderCheckNeverPanics ==
    /\ pc # "Panicked"
    /\ Descending =>
          LET r == binary_search(checked, variants[pos].name) IN
          ~r.found /\ r.idx < Len(checked)

\* The part of C14 the code satisfies: the insertion index of a name that is
\* not found is always an index of the list, also when an earlier out-of-order
\* name was pushed.
InsertionIndexInBounds ==
    Descending =>
        LET r == binary_search(checked, variants[pos].name) IN
        ~r.found => r.idx < Len(checked)

\* The panic needs a repeated name: a name no earlier arm has is never found.
PanicNeedsRepeat ==
    pc = "Panicked" => \E j \in 1..(pos - 1) : variants[j] = variants[pos]

\* the search runs over names that are out of order
UnsortedSearch ==
    /\ Descending
    /\ \E j \in 2..Len(checked) : StrLess(checked[j], checked[j - 1])

====
